---- MODULE Spec2Model ----
(***************************************************************************)
(* simple_evaluate() and evaluate() of lmms_eval/evaluator.py, run by      *)
(* world_size ranks.  Each rank is one process; ranks meet only at the     *)
(* collectives (accelerator.gather, accelerator.wait_for_everyone,         *)
(* torch.distributed.gather_object) and in the output directory, where     *)
(* each leaves a completion marker.  Tasks, documents and the model        *)
(* backend are external collaborators: their inputs are drawn from small   *)
(* sets in the initial predicates.                                         *)
(*   Spec, ConformingSpec  evaluate() from the request building loop on    *)
(*   ConfigSpec            simple_evaluate() from its entry                *)
(*   FinalizeSpec          lines 568-670, entered by every rank            *)
(*   FairFinalizeSpec      FinalizeSpec with every rank kept running       *)
(*   AggregateSpec         lines 574-663 on one rank, over all groupings   *)
(***************************************************************************)
EXTENDS Integers, Sequences, FiniteSets, TLC

\* ------------------------------------------------------------- bounds
MaxWorld == 2
MaxTasks == 2
MaxDocs == 3
NumChoices == 2

\* ------------------------------------------------------------- inputs
OutputTypes == {"loglikelihood", "multiple_choice", "generate_until"}
ReqTypes == {"loglikelihood", "generate_until"}

\* limit: None, an int, or a float below 1 (a fraction num/den of the docs)
NoLimit == [k |-> "none", num |-> 0, den |-> 1]
IntLimit(n) == [k |-> "int", num |-> n, den |-> 1]
FracLimit(a, b) == [k |-> "frac", num |-> a, den |-> b]
Limits == {NoLimit, IntLimit(0), IntLimit(1), FracLimit(1, 2)}

\* repeats is a task-level setting; every instance of a task carries it
RepeatsOf(otype) == IF otype = "loglikelihood" THEN 2 ELSE 1
\* a multiple_choice document yields one instance per choice
PerDoc(otype) == IF otype = "multiple_choice" THEN NumChoices ELSE 1

\* a task has a single document or MaxDocs of them
TaskSet == [ndocs : {1, MaxDocs}, otype : OutputTypes]
TaskLists == UNION {[1..n -> TaskSet] : n \in 0..MaxTasks}
\* what the backend returns relative to what was submitted (0: conforming)
BackendDeltas == {-1, 0, 1}

\* the groups a task may be declared under; a task outside every group has
\* group_name = None (line 363)
Groups == {1, 2}
NoGroup == 0
\* higher_is_better of a task for the metric: the task may not declare it
TaskPolarities == {"True", "False", "absent"}
\* keys of task_hierarchy, task_order, subtask_list and higher_is_better
TaskKey(t) == [kind |-> "task", id |-> t]
GroupKey(g) == [kind |-> "group", id |-> g]
\* marker files the output directory may hold: those of the ranks of this run
\* and one of a rank beyond the largest world size
MarkerIds == 0..MaxWorld

VARIABLES world_size, eval_tasks, limit_arg, backend_delta,
          log_samples, predict_only, bypass,
          tuple_tasks, group_of, hib_in, metric_keys, dist_ready,
          pc, ti, ri, limit, task_instances, requests, padding_requests,
          gathered, coll, submitted, mismatch, sample_metrics, err, built_with,
          markers, marker_ops, task_order, higher_is_better, warned,
          n_samples, results_dict

\* the arguments of the run and what its collaborators hand in
config == <<world_size, eval_tasks, limit_arg, backend_delta,
            log_samples, predict_only, bypass,
            tuple_tasks, group_of, hib_in, metric_keys, dist_ready>>

\* the output directory and what lines 568-670 compute
finalization == <<markers, marker_ops, task_order, higher_is_better, warned,
                  n_samples, results_dict>>

vars == <<config,
          pc, ti, ri, limit, task_instances, requests, padding_requests,
          gathered, coll, submitted, mismatch, sample_metrics, err, built_with,
          finalization>>

Ranks == 0..(world_size - 1)
NumTasks == Len(eval_tasks)
TaskIds == 1..NumTasks

\* ------------------------------------------------------------ helpers
Min(a, b) == IF a <= b THEN a ELSE b
MaxOf(S) == CHOOSE x \in S : \A y \in S : y <= x
CeilDiv(a, b) == (a + b - 1) \div b

RECURSIVE Flatten(_)
Flatten(ss) == IF ss = <<>> THEN <<>> ELSE Head(ss) \o Flatten(Tail(ss))

Replicate(x, n) == [i \in 1..n |-> x]

SeqToSetOf(ss) == {ss[i] : i \in 1..Len(ss)}

\* get_sample_size(task, limit): None stays None; a limit below 1.0 is a
\* fraction of the task's eval docs, rounded up; otherwise int(limit)
get_sample_size(task, lim) ==
    IF lim.k = "none" THEN lim
    ELSE IF lim.num < lim.den
         THEN IntLimit(CeilDiv(task.ndocs * lim.num, lim.den))
         ELSE IntLimit(lim.num \div lim.den)

\* islice with the stop position included (an off-by-one of the slice)
RECURSIVE islice_stop_inclusive(_, _, _, _)
islice_stop_inclusive(n, start, stop, step) ==
    IF start >= n \/ (stop.k # "none" /\ start > stop.num) THEN <<>>
    ELSE <<start>> \o islice_stop_inclusive(n, start + step, stop, step)

\* itertools.islice(enumerate(docs), start, stop, step): the positions
\* start, start+step, ... below stop (None: no stop) and below len(docs)
RECURSIVE islice(_, _, _, _)
islice(n, start, stop, step) ==
    IF start >= n \/ (stop.k # "none" /\ start >= stop.num) THEN <<>>
    ELSE <<start>> \o islice(n, start + step, stop, step)

\* the collector slicing with the limit evaluate() was called with
CollectLimitArg(r) == limit_arg

\* the limit the collector slices with: the local limit, as line 384 left it
CollectLimit(r) == limit[r]

\* the collector's document iterator of a rank, line 476
doc_iterator(r, task) == islice(task.ndocs, r, CollectLimit(r), world_size)

\* request type of the instances a task builds
InstanceReqType(otype) == IF otype = "multiple_choice" THEN "loglikelihood" ELSE otype

\* Task.build_all_requests(limit, rank, world_size): the instances of the
\* documents at positions rank, rank + world_size, ... below limit
BuildDocIds(task, lim, rank, ws) ==
    {d \in 0..(task.ndocs - 1) : d % ws = rank /\ (lim.k = "none" \/ d < lim.num)}

RECURSIVE SetToSortedSeq(_)
SetToSortedSeq(S) ==
    IF S = {} THEN <<>>
    ELSE LET m == CHOOSE x \in S : \A y \in S : x <= y
         IN <<m>> \o SetToSortedSeq(S \ {m})

DocInstances(task, d) ==
    [i \in 1..PerDoc(task.otype) |->
        [doc_id |-> d, idx |-> i - 1, request_type |-> InstanceReqType(task.otype),
         repeats |-> RepeatsOf(task.otype), resps |-> 0]]

build_all_requests(task, lim, rank, ws) ==
    LET ds == SetToSortedSeq(BuildDocIds(task, lim, rank, ws))
    IN Flatten([j \in 1..Len(ds) |-> DocInstances(task, ds[j])])

\* -------------------------------------------------------- control flow
\* where a rank continues once a loop is exhausted: an empty loop is skipped
\* line 521: the reduction block runs only with WORLD_SIZE > 1
AfterCollect == IF world_size > 1 THEN "reduce" ELSE "finalize"
\* line 442: the collection loop over eval_tasks
AfterDispatch == IF NumTasks = 0 THEN AfterCollect ELSE "collect"
\* line 417: the dispatch loop over requests.items()
AfterBuild(reqs) == IF reqs = <<>> THEN AfterDispatch ELSE "dispatch"

\* ---------------------------------------------------------------- Init
AllKeys == {TaskKey(t) : t \in TaskIds} \cup {GroupKey(g) : g \in Groups}

\* the locals of evaluate() as lines 319-342 create them, every rank at start
Locals(start, lim) ==
    /\ pc = [r \in Ranks |-> start]
    /\ ti = [r \in Ranks |-> 1]
    /\ ri = [r \in Ranks |-> 1]
    /\ limit = [r \in Ranks |-> lim]
    /\ task_instances = [r \in Ranks |-> [t \in TaskIds |-> <<>>]]
    /\ requests = [r \in Ranks |-> <<>>]
    /\ padding_requests = [r \in Ranks |-> [q \in ReqTypes |-> 0]]
    /\ gathered = [t \in TaskIds |-> [r \in Ranks |-> -1]]
    /\ coll = [r \in Ranks |-> <<>>]
    /\ submitted = [r \in Ranks |-> [q \in ReqTypes |-> -1]]
    /\ mismatch = [r \in Ranks |-> FALSE]
    /\ sample_metrics = [r \in Ranks |-> [t \in TaskIds |-> <<>>]]
    /\ err = [r \in Ranks |-> "none"]
    /\ built_with = [r \in Ranks |-> [t \in TaskIds |-> <<>>]]
    /\ marker_ops = [r \in Ranks |-> <<>>]
    /\ task_order = [k \in AllKeys |-> -1]
    /\ higher_is_better = [k \in AllKeys |-> "unset"]
    /\ warned = FALSE
    /\ n_samples = [t \in TaskIds |-> [original |-> -1, effective |-> -1]]
    /\ results_dict = [r \in Ranks |-> "unset"]

\* sample logging on, metrics computed, tasks outside groups
PlainSetup ==
    /\ log_samples = TRUE
    /\ predict_only = FALSE
    /\ bypass = [t \in TaskIds |-> FALSE]

\* TaskOutput.task is the task itself, under no group; nothing is known about
\* the aggregation yet
PlainTasks ==
    /\ tuple_tasks = FALSE
    /\ group_of = [t \in TaskIds |-> NoGroup]
    /\ hib_in = [t \in TaskIds |-> "True"]
    /\ metric_keys = 0
    /\ dist_ready = (world_size > 1)

\* evaluate() entered with log_samples=True, past the check of lines 347-349
Init ==
    /\ world_size \in 1..MaxWorld
    /\ eval_tasks \in TaskLists
    /\ limit_arg \in Limits
    /\ backend_delta \in BackendDeltas
    /\ PlainSetup
    /\ PlainTasks
    /\ markers = {}
    /\ Locals(IF NumTasks = 0 THEN AfterBuild(<<>>) ELSE "build", limit_arg)

\* -------------------------------------------------------- configuration
\* evaluate() handed log_samples as simple_evaluate() received it
LogSamplesAsGiven(r) == log_samples

\* the log_samples simple_evaluate() of rank r calls evaluate() with, line 227
EvaluateLogSamples(r) == IF predict_only THEN TRUE ELSE log_samples

\* "bypass" is among the task's metrics: declared by the task, or put there by
\* override_metric(metric_name="bypass") under predict_only, lines 180-183
HasBypass(t) == predict_only \/ bypass[t]

\* simple_evaluate() up to the call of evaluate(), lines 116-219: the assert of
\* line 133 fails on an empty task list
SimpleEvaluate(r) ==
    /\ pc[r] = "simple_evaluate"
    /\ IF NumTasks = 0
       THEN /\ pc' = [pc EXCEPT ![r] = "crashed"]
            /\ err' = [err EXCEPT ![r] = "AssertionError"]
       ELSE /\ pc' = [pc EXCEPT ![r] = "evaluate"]
            /\ UNCHANGED err
    /\ UNCHANGED <<config, finalization, ti, ri, limit, task_instances, requests,
                   padding_requests, gathered, coll, submitted, mismatch,
                   sample_metrics, built_with>>

\* evaluate() up to the loop over eval_tasks, lines 319-349
EvaluateCheck(r) ==
    /\ pc[r] = "evaluate"
    /\ IF ~EvaluateLogSamples(r) /\ (\E t \in TaskIds : HasBypass(t))
       THEN /\ pc' = [pc EXCEPT ![r] = "crashed"]
            /\ err' = [err EXCEPT ![r] = "ValueError"]
       ELSE /\ pc' = [pc EXCEPT ![r] = IF NumTasks = 0 THEN AfterBuild(<<>>) ELSE "build"]
            /\ UNCHANGED err
    /\ UNCHANGED <<config, finalization, ti, ri, limit, task_instances, requests,
                   padding_requests, gathered, coll, submitted, mismatch,
                   sample_metrics, built_with>>

\* ------------------------------------------------- building the requests
\* requests[reqtype].append(instance) for every instance of task t, lines 401-403
AppendRequests(reqs, q, refs) ==
    IF refs = <<>> THEN reqs
    ELSE IF \E p \in 1..Len(reqs) : reqs[p].reqtype = q
         THEN [p \in 1..Len(reqs) |->
                 IF reqs[p].reqtype = q
                 THEN [reqs[p] EXCEPT !.reqs = @ \o refs]
                 ELSE reqs[p]]
         ELSE Append(reqs, [reqtype |-> q, reqs |-> refs])

\* the limit handed to build_all_requests, line 384
BuildLimit(r, task) == get_sample_size(task, limit[r])

\* one iteration of the loop over eval_tasks, lines 351-407
Build(r) ==
    /\ pc[r] = "build"
    /\ LET t == ti[r]
           task == eval_tasks[t]
           lim == BuildLimit(r, task)
           insts == build_all_requests(task, lim, r, world_size)
           refs == [j \in 1..Len(insts) |-> <<t, j>>]
       IN /\ limit' = [limit EXCEPT ![r] = lim]
          /\ built_with' = [built_with EXCEPT ![r][t] = <<r, world_size, lim>>]
          /\ task_instances' = [task_instances EXCEPT ![r][t] = insts]
          /\ requests' = [requests EXCEPT
                ![r] = AppendRequests(@, InstanceReqType(task.otype), refs)]
          /\ IF world_size > 1
             THEN /\ gathered' = [gathered EXCEPT ![t][r] = Len(insts)]
                  /\ coll' = [coll EXCEPT ![r] = Append(@, "gather")]
                  /\ pc' = [pc EXCEPT ![r] = "gather"]
                  /\ UNCHANGED ti
             ELSE /\ ti' = [ti EXCEPT ![r] = IF t = NumTasks THEN 1 ELSE t + 1]
                  /\ pc' = [pc EXCEPT ![r] =
                        IF t = NumTasks THEN AfterBuild(requests'[r]) ELSE "build"]
                  /\ UNCHANGED <<gathered, coll>>
    /\ UNCHANGED <<config, finalization, ri, padding_requests, submitted, mismatch,
                   sample_metrics, err>>

\* reqtype the padding is booked under, line 409
LedgerReqType(otype) == IF otype = "multiple_choice" THEN "loglikelihood" ELSE otype

\* the padding computed against rank 0's count instead of the rank's own
NumPadOfRankZero(gathered_item, rank) ==
    MaxOf({gathered_item[x] : x \in DOMAIN gathered_item}) - gathered_item[0]

\* numpad = max(gathered_item) - gathered_item[lm.rank], line 411
NumPad(gathered_item, rank) ==
    MaxOf({gathered_item[x] : x \in DOMAIN gathered_item}) - gathered_item[rank]

\* padding_requests[reqtype] += numpad, line 413
AddPadding(ledger, q, numpad) == [ledger EXCEPT ![q] = @ + numpad]

\* accelerator.gather returns once every rank has contributed, lines 407-413
Gather(r) ==
    /\ pc[r] = "gather"
    /\ LET t == ti[r]
       IN /\ \A x \in Ranks : gathered[t][x] >= 0
          /\ padding_requests' = [padding_requests EXCEPT
                ![r] = AddPadding(@, LedgerReqType(eval_tasks[t].otype),
                                  NumPad(gathered[t], r))]
          /\ ti' = [ti EXCEPT ![r] = IF t = NumTasks THEN 1 ELSE t + 1]
          /\ pc' = [pc EXCEPT ![r] =
                IF t = NumTasks THEN AfterBuild(requests[r]) ELSE "build"]
    /\ UNCHANGED <<config, finalization, ri, limit, task_instances, requests, gathered, coll,
                   submitted, mismatch, sample_metrics, err, built_with>>

\* ------------------------------------------------------------- dispatch
Inst(r, ref) == task_instances[r][ref[1]][ref[2]]

\* cloned_reqs.extend([req] * req.repeats) for req in reqs, lines 420-422
Clones(r, reqs) ==
    Flatten([j \in 1..Len(reqs) |-> Replicate(reqs[j], Inst(r, reqs[j]).repeats)])

\* the padding copies, lines 424-426: req is the loop variable left by the
\* loop of line 421, the last request of the group
PaddingClones(r, grp) ==
    LET req == grp.reqs[Len(grp.reqs)]
        npad == padding_requests[r][grp.reqtype]
    IN IF world_size > 1 /\ npad > 0
       THEN Flatten([k \in 1..npad |-> Replicate(req, Inst(r, req).repeats)])
       ELSE <<>>

\* the list handed to getattr(lm, reqtype), line 429
ClonedReqs(r, grp) == Clones(r, grp.reqs) \o PaddingClones(r, grp)

\* the backend answers len(cloned_reqs) + backend_delta responses
BackendResps(ncloned) == IF ncloned + backend_delta < 0 THEN 0 ELSE ncloned + backend_delta

\* zip(resps, cloned_reqs) pairs up to the shorter of the two, line 432
ZipLen(nresps, ncloned) == Min(nresps, ncloned)

\* req.resps.append(x) for every pair of the zip, lines 432-433
WriteBack(insts, cloned, nzip) ==
    [t \in DOMAIN insts |->
        [j \in 1..Len(insts[t]) |->
            [insts[t][j] EXCEPT
                !.resps = @ + Cardinality({i \in 1..nzip : cloned[i] = <<t, j>>})]]]

\* one iteration of the loop over requests.items(), lines 417-436
Dispatch(r) ==
    /\ pc[r] = "dispatch"
    /\ LET grp == requests[r][ri[r]]
           cloned == ClonedReqs(r, grp)
           nresps == BackendResps(Len(cloned))
       IN /\ submitted' = [submitted EXCEPT ![r][grp.reqtype] = Len(cloned)]
          /\ mismatch' = [mismatch EXCEPT ![r] = @ \/ nresps # Len(cloned)]
          /\ task_instances' = [task_instances EXCEPT
                ![r] = WriteBack(@, cloned, ZipLen(nresps, Len(cloned)))]
    /\ IF world_size > 1
       THEN /\ coll' = [coll EXCEPT ![r] = Append(@, "barrier")]
            /\ pc' = [pc EXCEPT ![r] = "barrier"]
            /\ UNCHANGED ri
       ELSE /\ ri' = [ri EXCEPT ![r] = @ + 1]
            /\ pc' = [pc EXCEPT ![r] =
                  IF ri[r] = Len(requests[r]) THEN AfterDispatch ELSE "dispatch"]
            /\ UNCHANGED coll
    /\ UNCHANGED <<config, finalization, ti, limit, requests, padding_requests, gathered,
                   sample_metrics, err, built_with>>

\* accelerator.wait_for_everyone() returns once every rank has reached its
\* collective of the same position, line 436
Barrier(r) ==
    /\ pc[r] = "barrier"
    /\ \A x \in Ranks : Len(coll[x]) >= Len(coll[r])
    /\ ri' = [ri EXCEPT ![r] = @ + 1]
    /\ pc' = [pc EXCEPT ![r] =
          IF ri[r] = Len(requests[r]) THEN AfterDispatch ELSE "dispatch"]
    /\ UNCHANGED <<config, finalization, ti, limit, task_instances, requests, padding_requests,
                   gathered, coll, submitted, mismatch, sample_metrics, err,
                   built_with>>

\* ----------------------------------------------------------- collection
\* list.sort(key=lambda x: x.idx), line 455: stable, ascending idx
RECURSIVE InsertByIdx(_, _)
InsertByIdx(sorted, x) ==
    IF sorted = <<>> THEN <<x>>
    ELSE IF Head(sorted).idx <= x.idx
         THEN <<Head(sorted)>> \o InsertByIdx(Tail(sorted), x)
         ELSE <<x>> \o sorted

RECURSIVE SortByIdx(_)
SortByIdx(insts) ==
    IF insts = <<>> THEN <<>>
    ELSE InsertByIdx(SortByIdx(SubSeq(insts, 1, Len(insts) - 1)), insts[Len(insts)])

\* instances_by_doc_id[d] after lines 450-455: the task's instances of
\* document d, sorted by idx
instances_by_doc_id(insts, d) ==
    LET OfDoc(x) == x.doc_id = d
    IN SortByIdx(SelectSeq(insts, OfDoc))

\* the body of the loop over eval_tasks for one task, lines 443-519:
\*   line 457 indexes task.instances[0]: IndexError on a rank without instances;
\*   line 485 reads filter_key, which evaluate() never binds (the loop variable
\*   of line 457 is key): NameError at the first document of the iterator;
\*   an empty iterator contributes nothing
CollectTask(r, t) ==
    IF task_instances[r][t] = <<>> THEN [err |-> "IndexError", metrics |-> <<>>]
    ELSE IF doc_iterator(r, eval_tasks[t]) # <<>>
         THEN [err |-> "NameError", metrics |-> <<>>]
         ELSE [err |-> "none", metrics |-> <<>>]

Collect(r) ==
    /\ pc[r] = "collect"
    /\ LET t == ti[r]
           res == CollectTask(r, t)
       IN /\ sample_metrics' = [sample_metrics EXCEPT ![r][t] = @ \o res.metrics]
          /\ IF res.err = "none"
             THEN /\ ti' = [ti EXCEPT ![r] = t + 1]
                  /\ pc' = [pc EXCEPT ![r] =
                        IF t = NumTasks THEN AfterCollect ELSE "collect"]
                  /\ UNCHANGED err
             ELSE /\ pc' = [pc EXCEPT ![r] = "crashed"]
                  /\ err' = [err EXCEPT ![r] = res.err]
                  /\ UNCHANGED ti
    /\ UNCHANGED <<config, finalization, ri, limit, task_instances, requests, padding_requests,
                   gathered, coll, submitted, mismatch, built_with>>

\* ------------------------------------------------------------ reduction
\* lines 521-566 with WORLD_SIZE > 1: samples is still empty, so the loop of
\* line 524 issues no collective; line 530 reads vals, a local of evaluate()
\* (assigned at line 564) that is not bound yet: UnboundLocalError
Reduce(r) ==
    /\ pc[r] = "reduce"
    /\ pc' = [pc EXCEPT ![r] = "crashed"]
    /\ err' = [err EXCEPT ![r] = "UnboundLocalError"]
    /\ UNCHANGED <<config, finalization, ti, ri, limit, task_instances, requests,
                   padding_requests, gathered, coll, submitted, mismatch,
                   sample_metrics, built_with>>

\* --------------------------------------------------------- finalization
\* every rank naming the marker of rank 0, as with RANK unset in the environment
MarkerOfRankZero(r) == 0

\* the marker file of a rank, rank{int(os.environ.get('RANK', 0))}_metric_eval_done.txt:
\* the launcher exports each process's rank as RANK
MarkerOf(r) == r

\* lines 568-572: the rank removes its own marker if the directory holds one
RemoveStaleMarker(r) ==
    /\ pc[r] = "finalize"
    /\ markers' = markers \ {MarkerOf(r)}
    /\ marker_ops' = [marker_ops EXCEPT ![r] =
          IF MarkerOf(r) \in markers THEN Append(@, <<"remove", MarkerOf(r)>>) ELSE @]
    /\ pc' = [pc EXCEPT ![r] = "aggregate"]
    /\ UNCHANGED <<config, ti, ri, limit, task_instances, requests,
                   padding_requests, gathered, coll, submitted, mismatch,
                   sample_metrics, err, built_with, task_order,
                   higher_is_better, warned, n_samples, results_dict>>

\* lines 358-364: a task handed over as a (group, task) tuple is filed under
\* its group, any other task is a key of its own with no children
TaskIsTuple(t) == tuple_tasks /\ group_of[t] # NoGroup
HierarchyKeyOf(t) == IF TaskIsTuple(t) THEN GroupKey(group_of[t]) ELSE TaskKey(t)

\* the keys of a dict in insertion order: first occurrences of ks[1..n]
RECURSIVE KeysInOrder(_, _)
KeysInOrder(ks, n) ==
    IF n = 0 THEN <<>>
    ELSE LET before == KeysInOrder(ks, n - 1)
         IN IF ks[n] \in SeqToSetOf(before) THEN before ELSE Append(before, ks[n])

\* the tasks among 1..n that are flagged, in declaration order
RECURSIVE MembersInOrder(_, _)
MembersInOrder(flags, n) ==
    IF n = 0 THEN <<>>
    ELSE IF flags[n] THEN Append(MembersInOrder(flags, n - 1), TaskKey(n))
         ELSE MembersInOrder(flags, n - 1)

\* task_hierarchy.keys() in insertion order, and task_hierarchy[key]
task_hierarchy_keys == KeysInOrder([t \in TaskIds |-> HierarchyKeyOf(t)], NumTasks)
task_hierarchy(k) ==
    MembersInOrder([t \in TaskIds |-> TaskIsTuple(t) /\ k = GroupKey(group_of[t])],
                   NumTasks)

\* lines 585-588: the order index of a task under a group
ChildOrder(order, group, task) ==
    IF order[task] # -1 THEN order[task] + 1 ELSE 1 + order[group]

\* lines 594-602, torch.distributed.gather_object called by rank 0 alone (the
\* block is under `if lm.rank == 0`): with more ranks it waits for calls the
\* other ranks never make; with a single process it needs a process group
GatherObjectOutcome ==
    IF world_size > 1 THEN "blocked"
    ELSE IF dist_ready THEN "done" ELSE "RuntimeError"

\* lines 575-602, the loop over task_hierarchy.keys(): line 591 reads
\* full_samples, which only the loop of line 524 over the empty samples dict
\* would bind: UnboundLocalError at the first task under a group; the loop of
\* line 594 runs over the metric keys of the last task_output of line 442
RECURSIVE task_ordering(_, _, _)
task_ordering(keys, order, colls) ==
    IF keys = <<>> THEN [order |-> order, colls |-> colls, outcome |-> "done"]
    ELSE LET group == Head(keys)
             o1 == IF order[group] = -1 THEN [order EXCEPT ![group] = 0] ELSE order
             children == task_hierarchy(group)
         IN IF children # <<>>
            THEN [order |-> [o1 EXCEPT ![children[1]] = ChildOrder(o1, group, children[1])],
                  colls |-> colls, outcome |-> "UnboundLocalError"]
            ELSE IF metric_keys > 0
                 THEN IF GatherObjectOutcome = "done"
                      THEN task_ordering(Tail(keys), o1,
                                         colls \o Replicate("gather_object", metric_keys))
                      ELSE [order |-> o1, colls |-> Append(colls, "gather_object"),
                            outcome |-> GatherObjectOutcome]
                 ELSE task_ordering(Tail(keys), o1, colls)

\* get_subtask_list(task_dict): every group with its tasks, every task outside
\* a group with an empty list (line 630)
SubtaskKeyOf(t) == IF group_of[t] # NoGroup THEN GroupKey(group_of[t]) ELSE TaskKey(t)
subtask_list_keys == KeysInOrder([t \in TaskIds |-> SubtaskKeyOf(t)], NumTasks)
subtask_list(k) ==
    MembersInOrder([t \in TaskIds |-> group_of[t] # NoGroup /\ k = GroupKey(group_of[t])],
                   NumTasks)

\* the first polarity seen for a metric kept, whatever comes after
MergeKeepFirst(acc, h) ==
    IF h = "absent" THEN [value |-> acc, warning |-> FALSE]
    ELSE [value |-> IF acc = "absent" THEN h ELSE acc, warning |-> FALSE]

\* lines 632-638 for one subtask: its polarity h of the metric merged into the
\* accumulator _higher_is_better ("absent": the metric is not a key)
MergePolarity(acc, h) ==
    IF h = "absent" THEN [value |-> acc, warning |-> FALSE]
    ELSE LET a1 == IF acc = "absent" THEN h ELSE acc
         IN IF a1 # "None" /\ a1 # h
            THEN [value |-> "None", warning |-> TRUE]
            ELSE [value |-> a1, warning |-> FALSE]

\* lines 628-639 over the subtasks visited so far: _higher_is_better is created
\* once, before the loop over the groups, and every group is given that object
RECURSIVE merge_higher_is_better(_, _)
merge_higher_is_better(tasks, acc) ==
    IF tasks = <<>> THEN acc
    ELSE LET m == MergePolarity(acc.value, hib_in[Head(tasks).id])
         IN merge_higher_is_better(Tail(tasks),
                [value |-> m.value, warning |-> acc.warning \/ m.warning])

\* the subtasks of all groups in the order lines 629-631 visit them
VisitedSubtasks ==
    Flatten([i \in 1..Len(subtask_list_keys) |-> subtask_list(subtask_list_keys[i])])

\* higher_is_better after line 639: the tasks' own entries from
\* consolidate_results, and for every group with subtasks the shared accumulator
GroupPolarities ==
    LET merged == merge_higher_is_better(VisitedSubtasks,
                                         [value |-> "absent", warning |-> FALSE])
    IN [hib |-> [k \in AllKeys |->
                    IF k.kind = "task" THEN hib_in[k.id]
                    ELSE IF subtask_list(k) # <<>> THEN merged.value ELSE "unset"],
        warning |-> merged.warning]

\* lines 652-655: min(limit if limit else len(eval_docs), len(eval_docs))
EffectiveSamples(lim, total) ==
    Min(IF lim.k # "none" /\ lim.num # 0 THEN lim.num ELSE total, total)

\* every rank taking the coordinator's branch
EveryRankCoordinates(r) == TRUE

\* `if lm.rank == 0` (line 574) and `if RANK == 0` (line 604)
IsCoordinator(r) == r = 0

\* lines 574-663: task ordering and aggregation on rank 0, results_dict = None
\* on the other ranks; line 643 reads show_group_table, bound at line 620 only
\* when consolidate_results returned results for at least one task
Aggregate(r) ==
    /\ pc[r] = "aggregate"
    /\ IF ~IsCoordinator(r)
       THEN /\ results_dict' = [results_dict EXCEPT ![r] = "None"]
            /\ pc' = [pc EXCEPT ![r] = "write_marker"]
            /\ UNCHANGED <<task_order, coll, err, higher_is_better, warned, n_samples>>
       ELSE LET ord == task_ordering(task_hierarchy_keys, task_order, <<>>)
                pol == GroupPolarities
            IN /\ task_order' = ord.order
               /\ coll' = [coll EXCEPT ![r] = @ \o ord.colls]
               /\ IF ord.outcome = "blocked"
                  THEN /\ pc' = [pc EXCEPT ![r] = "gather_object"]
                       /\ UNCHANGED <<err, higher_is_better, warned, n_samples,
                                      results_dict>>
                  ELSE IF ord.outcome # "done"
                  THEN /\ pc' = [pc EXCEPT ![r] = "crashed"]
                       /\ err' = [err EXCEPT ![r] = ord.outcome]
                       /\ UNCHANGED <<higher_is_better, warned, n_samples,
                                      results_dict>>
                  ELSE /\ higher_is_better' = pol.hib
                       /\ warned' = pol.warning
                       /\ IF NumTasks = 0
                          THEN /\ pc' = [pc EXCEPT ![r] = "crashed"]
                               /\ err' = [err EXCEPT ![r] = "UnboundLocalError"]
                               /\ UNCHANGED <<n_samples, results_dict>>
                          ELSE /\ n_samples' = [t \in TaskIds |->
                                     [original |-> eval_tasks[t].ndocs,
                                      effective |-> EffectiveSamples(limit[r],
                                                        eval_tasks[t].ndocs)]]
                               /\ results_dict' = [results_dict EXCEPT ![r] = "dict"]
                               /\ pc' = [pc EXCEPT ![r] = "write_marker"]
                               /\ UNCHANGED err
    /\ UNCHANGED <<config, ti, ri, limit, task_instances, requests,
                   padding_requests, gathered, submitted, mismatch,
                   sample_metrics, built_with, markers, marker_ops>>

\* lines 665-666: the rank writes its marker
WriteMarker(r) ==
    /\ pc[r] = "write_marker"
    /\ markers' = markers \cup {MarkerOf(r)}
    /\ marker_ops' = [marker_ops EXCEPT ![r] = Append(@, <<"write", MarkerOf(r)>>)]
    /\ pc' = [pc EXCEPT ![r] = "poll"]
    /\ UNCHANGED <<config, ti, ri, limit, task_instances, requests,
                   padding_requests, gathered, coll, submitted, mismatch,
                   sample_metrics, err, built_with, task_order,
                   higher_is_better, warned, n_samples, results_dict>>

\* lines 667-670: the rank leaves the polling loop once the directory lists at
\* least lm._world_size files ending in metric_eval_done.txt, and returns
PollMarkers(r) ==
    /\ pc[r] = "poll"
    /\ Cardinality(markers) >= world_size
    /\ pc' = [pc EXCEPT ![r] = "returned"]
    /\ UNCHANGED <<config, finalization, ti, ri, limit, task_instances, requests,
                   padding_requests, gathered, coll, submitted, mismatch,
                   sample_metrics, err, built_with>>

\* evaluate() from line 351 on. No run gets as far as line 665: collection
\* fails on every task (lines 457, 485), reduction fails with more than one
\* rank (line 530), and without tasks line 643 fails; FinalizeSpec below
\* enters lines 568-670 directly
Next ==
    \E r \in Ranks :
        \/ Build(r)
        \/ Gather(r)
        \/ Dispatch(r)
        \/ Barrier(r)
        \/ Collect(r)
        \/ Reduce(r)
        \/ RemoveStaleMarker(r)
        \/ Aggregate(r)

Spec == Init /\ [][Next]_vars

\* the same program against a backend that honours its contract
ConformingInit == Init /\ backend_delta = 0
ConformingSpec == ConformingInit /\ [][Next]_vars

\* simple_evaluate() called on every rank: any task list, sample logging on or
\* off, predict_only or not, tasks with or without the bypass metric
ConfigTaskLists ==
    UNION {[1..n -> {[ndocs |-> MaxDocs, otype |-> "generate_until"]}] : n \in 0..MaxTasks}

ConfigInit ==
    /\ world_size \in 1..MaxWorld
    /\ eval_tasks \in ConfigTaskLists
    /\ limit_arg = NoLimit
    /\ backend_delta = 0
    /\ log_samples \in BOOLEAN
    /\ predict_only \in BOOLEAN
    /\ bypass \in [TaskIds -> BOOLEAN]
    /\ PlainTasks
    /\ markers = {}
    /\ Locals("simple_evaluate", limit_arg)

ConfigNext ==
    \E r \in Ranks :
        \/ SimpleEvaluate(r)
        \/ EvaluateCheck(r)
        \/ Build(r)
        \/ Gather(r)
        \/ Dispatch(r)
        \/ Barrier(r)
        \/ Collect(r)

ConfigSpec == ConfigInit /\ [][ConfigNext]_vars

\* the limit local of evaluate() after the loop of lines 351-413 over the
\* first n tasks
RECURSIVE LimitAfterBuild(_, _, _)
LimitAfterBuild(tasks, lim, n) ==
    IF n = 0 THEN lim
    ELSE get_sample_size(tasks[n], LimitAfterBuild(tasks, lim, n - 1))

\* lines 568-670 entered by every rank, as after a collection and a reduction
\* that completed: the output directory may hold markers of an earlier run,
\* the tasks stand alone or all under one group
FinalizeTaskLists ==
    UNION {[1..n -> {[ndocs |-> 1, otype |-> "generate_until"]}] : n \in 0..MaxTasks}

FinalizeInit ==
    /\ world_size \in 1..MaxWorld
    /\ eval_tasks \in FinalizeTaskLists
    /\ limit_arg = NoLimit
    /\ backend_delta = 0
    /\ PlainSetup
    /\ tuple_tasks \in BOOLEAN
    /\ group_of \in [TaskIds -> {1}]
    /\ hib_in = [t \in TaskIds |-> "True"]
    /\ metric_keys \in {0, 1}
    /\ dist_ready \in IF world_size > 1 THEN {TRUE} ELSE BOOLEAN
    /\ markers \in SUBSET MarkerIds
    /\ Locals("finalize", limit_arg)

FinalizeNext ==
    \E r \in Ranks :
        \/ RemoveStaleMarker(r)
        \/ Aggregate(r)
        \/ WriteMarker(r)
        \/ PollMarkers(r)

FinalizeSpec == FinalizeInit /\ [][FinalizeNext]_vars

\* one step of rank r in lines 568-670
FinalizeStep(r) ==
    /\ r \in Ranks
    /\ RemoveStaleMarker(r) \/ Aggregate(r) \/ WriteMarker(r) \/ PollMarkers(r)

\* every rank is a process of its own that keeps running: a rank that can take
\* a step eventually takes one (the polling loop of line 667 looks again every
\* second)
FairFinalizeSpec ==
    FinalizeSpec /\ \A r \in 0..(MaxWorld - 1) : WF_vars(FinalizeStep(r))

\* the aggregation of lines 604-663 on a single rank, over every grouping of
\* the tasks, every polarity of theirs and every limit
AggregateTaskLists ==
    UNION {[1..n -> [ndocs : {1, MaxDocs}, otype : {"generate_until"}]] : n \in 1..MaxTasks}

AggregateInit ==
    /\ world_size = 1
    /\ eval_tasks \in AggregateTaskLists
    /\ limit_arg \in Limits
    /\ backend_delta = 0
    /\ PlainSetup
    /\ tuple_tasks = FALSE
    /\ group_of \in [TaskIds -> Groups \cup {NoGroup}]
    /\ hib_in \in [TaskIds -> TaskPolarities]
    /\ metric_keys = 0
    /\ dist_ready = FALSE
    /\ markers = {}
    /\ Locals("aggregate", LimitAfterBuild(eval_tasks, limit_arg, NumTasks))

AggregateNext == \E r \in Ranks : Aggregate(r)

AggregateSpec == AggregateInit /\ [][AggregateNext]_vars

\* ------------------------------------------------------------ properties
PastBuild(r) == pc[r] \notin {"build", "gather"}
PastDispatch(r) == pc[r] \notin {"build", "gather", "dispatch", "barrier"}
Terminated(r) == pc[r] \in {"crashed", "finalize"}

RECURSIVE SeqSum(_)
SeqSum(ss) == IF ss = <<>> THEN 0 ELSE Head(ss) + SeqSum(Tail(ss))

\* number of instances rank r holds under request type q
LocalCount(r, q) ==
    SeqSum([p \in 1..Len(requests[r]) |->
              IF requests[r][p].reqtype = q THEN Len(requests[r][p].reqs) ELSE 0])

SeqToSet(ss) == {ss[i] : i \in 1..Len(ss)}

C2_ResponsesEqualRepeats ==
    \A r \in Ranks :
        (PastDispatch(r) /\ ~mismatch[r]) =>
            \A t \in TaskIds : \A j \in 1..Len(task_instances[r][t]) :
                task_instances[r][t][j].resps = task_instances[r][t][j].repeats

\* what rank r submits for request type q: nothing when it never calls the backend
Submitted(r, q) == IF submitted[r][q] < 0 THEN 0 ELSE submitted[r][q]
SubmissionDecided(r, q) == submitted[r][q] >= 0 \/ PastDispatch(r)

\* C3: with world_size > 1, for every request type the list submitted to the
\* backend has the same length on every rank
C3_SameSubmittedLength ==
    world_size > 1 =>
        \A q \in ReqTypes : \A r1, r2 \in Ranks :
            (SubmissionDecided(r1, q) /\ SubmissionDecided(r2, q)) =>
                Submitted(r1, q) = Submitted(r2, q)

\* C4: all ranks execute the same sequence of collectives: the sequences agree
\* position by position, and no rank has invoked a collective that a rank
\* whose run is over never invoked
C4_SameCollectives ==
    \A r1, r2 \in Ranks :
        /\ \A i \in 1..Min(Len(coll[r1]), Len(coll[r2])) : coll[r1][i] = coll[r2][i]
        /\ Terminated(r2) => Len(coll[r1]) <= Len(coll[r2])

\* the positions of docs[0:limit] of a task, as a single rank iterates them
LimitedDocs(task, lim) ==
    {d \in 0..(task.ndocs - 1) : lim.k = "none" \/ d < lim.num}

\* a per-document metric value is identified by its task and document
MetricValue(t, d) == <<t, d>>

\* every rank's stride shard of every task holds a document
EveryRankHasDocs ==
    \A r \in Ranks : \A t \in TaskIds :
        islice(eval_tasks[t].ndocs, r, limit[0], world_size) # <<>>

\* C5: the per-document metric values that reach aggregation on rank 0 are
\* those of the single-rank run over docs[0:limit], whatever the world size
C5_SameAsSingleRank ==
    (NumTasks >= 1 /\ Terminated(0) /\ EveryRankHasDocs) =>
        /\ pc[0] # "crashed"
        /\ \A t \in TaskIds :
              /\ SeqToSet(sample_metrics[0][t])
                    = {MetricValue(t, d) : d \in LimitedDocs(eval_tasks[t], limit[0])}
              /\ Len(sample_metrics[0][t])
                    = Cardinality(LimitedDocs(eval_tasks[t], limit[0]))

\* the stride shard of rank r for a task under limit lim
Shard(r, task, lim) == islice(task.ndocs, r, lim, world_size)

\* C6: the stride shards of ranks 0..W-1 hold no position twice, are pairwise
\* disjoint, and their union is exactly docs[0:limit]
C6_ShardsPartition ==
    \A t \in TaskIds : \A x \in Ranks :
        LET task == eval_tasks[t]
            lim == limit[x]
            shard == [r \in Ranks |-> Shard(r, task, lim)]
        IN lim.k # "frac" =>
            /\ \A r \in Ranks : Cardinality(SeqToSet(shard[r])) = Len(shard[r])
            /\ \A r1, r2 \in Ranks :
                  r1 # r2 => SeqToSet(shard[r1]) \cap SeqToSet(shard[r2]) = {}
            /\ UNION {SeqToSet(shard[r]) : r \in Ranks} = LimitedDocs(task, lim)

\* 3 documents on 2 ranks, sliced by the collector: rank 0 iterates {0, 2},
\* rank 1 iterates {1}
C6_Witness ==
    /\ world_size = 2
    /\ NumTasks = 1
    /\ eval_tasks[1].ndocs = 3
    /\ limit_arg = NoLimit
    /\ \A r \in Ranks : pc[r] = "crashed" /\ err[r] = "NameError"
    /\ doc_iterator(0, eval_tasks[1]) = <<0, 2>>
    /\ doc_iterator(1, eval_tasks[1]) = <<1>>

\* C7: for every task a rank has built, the (rank, world_size, limit) triple
\* the collector slices with is the triple build_all_requests was called
\* with, and the collector iterates exactly the doc_ids instances exist for
C7_CollectorMirrorsBuild ==
    \A r \in Ranks :
        PastBuild(r) =>
            \A t \in TaskIds :
                /\ built_with[r][t] = <<r, world_size, CollectLimit(r)>>
                /\ SeqToSet(doc_iterator(r, eval_tasks[t]))
                     = {task_instances[r][t][j].doc_id :
                            j \in 1..Len(task_instances[r][t])}

\* a run of two tasks of different size under a fractional limit, in which a
\* rank has sliced the documents of a task and started iterating them
C7_Witness ==
    /\ NumTasks = 2
    /\ limit_arg = FracLimit(1, 2)
    /\ eval_tasks[1].ndocs = 3
    /\ eval_tasks[2].ndocs = 1
    /\ world_size = 2
    /\ pc[0] = "crashed" /\ err[0] = "NameError"
    /\ built_with[0][1] = <<0, 2, IntLimit(2)>>
    /\ built_with[0][2] = <<0, 2, IntLimit(2)>>

\* C8: reducing across ranks yields on the coordinator, for every task, a
\* list whose length is the sum of the per-rank lengths
C8_ReducedLengthIsSum ==
    (world_size > 1 /\ NumTasks >= 1 /\ Terminated(0) /\ EveryRankHasDocs) =>
        /\ err[0] = "none"
        /\ \A t \in TaskIds :
              Len(sample_metrics[0][t])
                = SeqSum([i \in 1..world_size |->
                            Len(doc_iterator(i - 1, eval_tasks[t]))])

\* the values of rank r for task t, in the rank's document order
RankValues(r, t) ==
    LET ds == doc_iterator(r, eval_tasks[t])
    IN [i \in 1..Len(ds) |-> MetricValue(t, ds[i])]

\* C9: the reduced list of every task is the rank-major concatenation of the
\* per-rank lists: rank 0's values, then rank 1's, and so on
C9_RankMajorConcatenation ==
    (world_size > 1 /\ NumTasks >= 1 /\ Terminated(0) /\ EveryRankHasDocs) =>
        /\ pc[0] = "finalize"
        /\ \A t \in TaskIds :
              sample_metrics[0][t]
                = Flatten([i \in 1..world_size |-> RankValues(i - 1, t)])

\* C10: a backend answer of another length than the submitted list aborts
\* dispatch: the rank stops with an error and goes on to nothing else
C10_MismatchAborts ==
    \A r \in Ranks :
        mismatch[r] => (pc[r] = "crashed" /\ err[r] = "ResponseCountMismatch")

\* rank r's shard of task t holds no document
EmptyShard(r, t) == doc_iterator(r, eval_tasks[t]) = <<>>

\* C11: a rank whose shard of a task holds no document collects that task
\* without raising an error, and contributes no metric value for it
C11_EmptyShardCollects ==
    \A r \in Ranks : \A t \in TaskIds :
        (PastDispatch(r) /\ EmptyShard(r, t)) =>
            /\ ~(pc[r] = "crashed" /\ ti[r] = t /\ err[r] \in {"IndexError", "NameError"})
            /\ sample_metrics[r][t] = <<>>

\* the keys of a rank's sample_metrics: a defaultdict holds a key only once
\* line 519 has appended a value under it
ReportedKeys(r) == {t \in TaskIds : sample_metrics[r][t] # <<>>}

\* C12: with world_size > 1, a rank whose run is over has come through
\* collection and reduction without an error, and for a task it held no
\* document of it has presented the task's key (with an empty list)
C12_SameKeysAtReduction ==
    world_size > 1 =>
        \A r \in Ranks : \A t \in TaskIds :
            (Terminated(r) /\ EmptyShard(r, t)) =>
                (err[r] = "none" /\ t \in ReportedKeys(r))

HasWritten(r) ==
    \E i \in 1..Len(marker_ops[r]) : marker_ops[r][i][1] = "write"

DeclaredPolarities(g) ==
    {hib_in[t] : t \in {x \in TaskIds : group_of[x] = g}} \ {"absent"}

SimpleEvaluateReturn(r) == IF r = 0 THEN results_dict[r] ELSE "None"

NothingBuilt(r) ==
    /\ requests[r] = <<>>
    /\ coll[r] = <<>>
    /\ \A t \in TaskIds : task_instances[r][t] = <<>> /\ built_with[r][t] = <<>>

PastChecks(r) == pc[r] \notin {"simple_evaluate", "evaluate"}

\* C17: an empty task list fails in simple_evaluate(); sample logging off with
\* a bypass task makes evaluate() raise ValueError, unless predict_only forced
\* log_samples to True; either error leaves no request built and no
\* collective issued
C17_ConfigErrorsFirst ==
    \A r \in Ranks :
        /\ err[r] \in {"AssertionError", "ValueError"} => NothingBuilt(r)
        /\ (NumTasks = 0 /\ pc[r] # "simple_evaluate") => err[r] = "AssertionError"
        /\ (NumTasks > 0 /\ ~log_samples /\ ~predict_only
              /\ (\E t \in TaskIds : bypass[t]) /\ PastChecks(r)) => err[r] = "ValueError"
        /\ predict_only => err[r] # "ValueError"

\* predict_only with log_samples off: the rank got past the check and built
\* the requests of its bypass tasks
C17_Witness ==
    /\ predict_only /\ ~log_samples
    /\ NumTasks = 2
    /\ pc[0] = "dispatch"
    /\ requests[0] # <<>>
    /\ err[0] = "none"

NumWrites(r) ==
    Cardinality({i \in 1..Len(marker_ops[r]) : marker_ops[r][i][1] = "write"})

Collected(r, t) ==
    /\ PastDispatch(r)
    /\ pc[r] # "collect" \/ ti[r] > t
    /\ pc[r] = "crashed" => ti[r] >= t

\* C21: for every document a rank collected, the document's instances are
\* grouped under its doc_id in ascending idx order, and the metric function
\* was called for the document with the responses in that order
C21_MetricGetsIdxOrder ==
    \A r \in Ranks : \A t \in TaskIds :
        Collected(r, t) =>
            LET ds == doc_iterator(r, eval_tasks[t])
            IN \A i \in 1..Len(ds) :
                  LET grp == instances_by_doc_id(task_instances[r][t], ds[i])
                  IN /\ Len(grp) = PerDoc(eval_tasks[t].otype)
                     /\ \A j \in 1..Len(grp) : grp[j].doc_id = ds[i] /\ grp[j].idx = j - 1
                     /\ MetricValue(t, ds[i]) \in SeqToSet(sample_metrics[r][t])

\* rank r has run the backend invocation and the response write-back of its
\* k-th request type
RanGroup(r, k) ==
    /\ PastBuild(r)
    /\ k <= Len(requests[r])
    /\ PastDispatch(r) \/ ri[r] > k \/ (ri[r] = k /\ pc[r] = "barrier")

\* C22: with world_size > 1 the k-th request type a rank runs is the k-th
\* request type of every other rank, and a rank starts the invocation of its next request type only when
\* every rank has finished invocation and write-back of the current one
C22_BarrierPerRequestType ==
    world_size > 1 =>
        \A r1, r2 \in Ranks :
            /\ (PastBuild(r1) /\ PastBuild(r2)) =>
                  \A p \in 1..Min(Len(requests[r1]), Len(requests[r2])) :
                      requests[r1][p].reqtype = requests[r2][p].reqtype
            /\ (pc[r1] = "dispatch" /\ ri[r1] >= 2) => RanGroup(r2, ri[r1] - 1)

\* C23: once a rank is through with the collection of a task, the task's
\* sample_metrics list holds one entry per document of the rank's shard, in
\* the order the documents were iterated
C23_OneEntryPerDocument ==
    \A r \in Ranks : \A t \in TaskIds :
        Collected(r, t) => sample_metrics[r][t] = RankValues(r, t)

\* the polarity of the metric that the subtasks of group g determine on their
\* own: not a key when none of them declares it, their common value when they
\* agree, None when they do not
ScopedPolarity(g) ==
    LET declared == DeclaredPolarities(g)
    IN IF declared = {} THEN "absent"
       ELSE IF Cardinality(declared) = 1 THEN CHOOSE v \in declared : TRUE
       ELSE "None"

VisitOrders(n) == {p \in [1..n -> 1..n] : \A i, j \in 1..n : p[i] = p[j] => i = j}

\* what the accumulator may hold when the loop of line 631 is entered
AccumulatorValues == {"absent", "True", "False", "None"}

====
